---- MODULE Spec2Model ----
(***************************************************************************)
(* CiderTrack (ciderflow-hq): the tenant-scoped table store with its       *)
(* row-level-security policies, and the Dashboard / Settings / Onboarding  *)
(* clients that issue requests against it.                                 *)
(*                                                                         *)
(* The store part is translated from the SQL migrations, the client part   *)
(* from the React handlers and their react-query mutations.  A request is  *)
(* executed by the store atomically; a client mutation is two steps:       *)
(* the handler with onMutate (the request goes in flight) and the settle   *)
(* (the store executes it, then onSuccess / onError and onSettled run).    *)
(***************************************************************************)
EXTENDS Integers, FiniteSets, Sequences, TLC

(* ---------------------------------------------------------------------- *)
(* Bounds                                                                  *)
(* ---------------------------------------------------------------------- *)
NumUsers == 2
NumOrgs == 2
NumBatches == 2
MaxPending == 2
SharedOrgs == 1
SharedBatches == 1
MaxRequests == 3
MaxRecords == 1
MaxTime == 2

Users == 1..NumUsers
OrgIds == 1..NumOrgs
BatchIds == 1..NumBatches
RecordIds == 1..MaxRecords

(* 0 stands for SQL NULL / JavaScript null-or-undefined in id positions.   *)
NoId == 0

(* ---------------------------------------------------------------------- *)
(* Domains taken from the schema                                           *)
(* ---------------------------------------------------------------------- *)
Roles == {"owner", "admin", "member"}

StageSet == {"pressing", "fermenting", "aging", "bottled"}

StageOrder == <<"pressing", "fermenting", "aging", "bottled">>

StageIndex(s) == CHOOSE i \in 1..Len(StageOrder) : StageOrder[i] = s

OrgNames == {"cidery", "renamed"}

(* Volumes in hundredths of a litre (DECIMAL(10,2)): -5, 0 and 12.5 L.     *)
Volumes == {-500, 0, 1250}

(* completed_at values: the clock readings of the clients.                 *)
Times == 1..MaxTime

(* const sensoryScale = [1, 2, 3, 4, 5]: the values the sweetness, acidity *)
(* and body selects offer.                                                 *)
sensoryScale == 1..5

(* <<sweetness, acidity, body>> of the tasting form: the sweetness select  *)
(* is used, acidity and body are left at their initial value.              *)
FormScores == {<<sw, 3, 3>> : sw \in sensoryScale}

(* What the quantity field of the packaging form can hold: nothing, or a   *)
(* number of units.                                                        *)
(* What a metric field of the fermentation log form can hold: '' ({}),     *)
(* zero, or another number; and its notes field: empty, blank, or text.    *)
FormMetrics == {{}, {0}, {18}}

FormNotes == {"", " ", "racked"}

FormQuantities == {{}, {-1}, {24}}

(* .limit(5) of the upcoming packaging query.                              *)
UpcomingLimit == 5

(* What the volume field of a form can hold: nothing usable, or a number.  *)
FormVolumes == {{}} \cup {{v} : v \in Volumes}

(* The volumes users usually enter.                                        *)
UsualVolumes == {v \in Volumes : v > 0}

(* The volumes of the requests sent without the pages.                     *)
RawVolumes == {v \in Volumes : v # 0}

NoStage == "none"

stageTransitionsBackward(s) ==
  CASE s = "pressing" -> "fermenting"
    [] s = "fermenting" -> "aging"
    [] s = "aging" -> "fermenting"
    [] OTHER -> NoStage

stageTransitionsSkip(s) ==
  CASE s = "pressing" -> "aging"
    [] s = "fermenting" -> "aging"
    [] s = "aging" -> "bottled"
    [] OTHER -> NoStage

(* Dashboard.tsx stageTransitions: the nextStage of each stage, NoStage    *)
(* for the null entry of bottled.                                          *)
stageTransitions(s) ==
  CASE s = "pressing" -> "fermenting"
    [] s = "fermenting" -> "aging"
    [] s = "aging" -> "bottled"
    [] OTHER -> NoStage

VARIABLES
  organizations,         \* table public.organizations: rows [id, owner_id, name]
  organization_members,  \* table public.organization_members: rows [organization_id, user_id, role]
  batches,               \* table public.batches: rows [id, organization_id, current_stage, created_by, volume]
  fermentation_logs,     \* table public.fermentation_logs: rows [id, batch_id]
  tasting_notes,         \* table public.tasting_notes: rows [id, batch_id, sweetness, acidity, body]
  packaging_schedules,   \* table public.packaging_schedules: rows [id, batch_id, quantity, completed_at]
  orgSeq,                \* organizations ever inserted (gen_random_uuid never repeats)
  batchSeq,              \* batches ever inserted
  logSeq,                \* fermentation logs ever inserted
  noteSeq,               \* tasting notes ever inserted
  scheduleSeq,           \* packaging schedules ever inserted
  app,                   \* the App component of one browser: its state, the auth session, replies awaited
  membership,            \* per client: data of the ['organization-membership', user.id] query
  batchesData,           \* per client: data of the ['batches', organizationId] query
  selectedBatch,         \* per client: Dashboard state selectedBatch
  operationLoading,      \* per client: Dashboard state operationLoading
  pending,               \* per client: mutations in flight
  onboarding,            \* per client: Onboarding.handleSubmit between its two inserts
  packagingSchedules,    \* per client: data of the ['packaging-schedules', selectedBatchId] query
  upcomingPackaging,     \* per client: data of the ['upcoming-packaging', organizationId] query
  requests,              \* requests sent to the REST interface without the pages
  last                   \* what the last step did and presented to its caller

recordVars == <<fermentation_logs, tasting_notes, packaging_schedules,
                logSeq, noteSeq, scheduleSeq>>
storeVars == <<organizations, organization_members, batches, orgSeq, batchSeq, recordVars>>
dialogVars == <<packagingSchedules, upcomingPackaging>>
clientVars == <<membership, batchesData, selectedBatch, operationLoading, pending, onboarding,
                dialogVars>>
vars == <<organizations, organization_members, batches, orgSeq, batchSeq, recordVars,
          membership, batchesData, selectedBatch, operationLoading, pending,
          onboarding, dialogVars, requests, last, app>>


(* ---------------------------------------------------------------------- *)
(* Requests                                                                *)
(* ---------------------------------------------------------------------- *)
(* One shape for every request of the supabase client: the table           *)
(* operation, the filters (.eq('id', ..), .eq('organization_id', ..)) and  *)
(* the payload columns.  Unused positions hold NoId / NoStage / "none".    *)
(* call tells apart two mutate() calls made with the same variables.       *)
(* A nullable number is a set: {} for null, {n} for the value n.           *)
(* answer and data are filled in when the store has answered and the       *)
(* reply is on its way to the client: "ok" with the returned row (if the   *)
(* request asked for one) or "error".                                      *)
Req(op, org, batch, stage, user, role, name) ==
  [op |-> op, org |-> org, batch |-> batch, stage |-> stage,
   user |-> user, role |-> role, name |-> name, call |-> 1,
   record |-> NoId, volume |-> {}, quantity |-> {}, completed_at |-> {},
   scores |-> <<>>, answer |-> "none", data |-> {}]

(* What the last step did: the user it ran for, the operation the store    *)
(* executed in it ("none" when the store was not reached), the            *)
(* organization the request named, the number of rows that changed, and    *)
(* the outcome presented to the caller: the title of the toast (or of the  *)
(* panel shown in place of a button), "none" when nothing is shown.        *)
Last(uid, op, org, rows, title) ==
  [user |-> uid, op |-> op, org |-> org, rows |-> rows, toast |-> title]

Quiet == Last(NoId, "none", NoId, 0, "none")

(* ---------------------------------------------------------------------- *)
(* Row-level-security predicates                                           *)
(* ---------------------------------------------------------------------- *)
(* public.is_organization_member(org_id uuid, user_id uuid), LANGUAGE sql: *)
(*   SELECT EXISTS (SELECT 1 FROM public.organization_members              *)
(*                  WHERE organization_id = org_id                         *)
(*                  AND organization_members.user_id = user_id)            *)
(* In a LANGUAGE sql body a bare name that is both a column of the query   *)
(* and a parameter of the function denotes the column, so the right-hand   *)
(* user_id is organization_members.user_id; org_id names no column and     *)
(* denotes the parameter.                                                  *)
is_organization_member(org_id, user_id) ==
  \E m \in organization_members :
    m.organization_id = org_id /\ m.user_id = m.user_id

OrgSelectPolicyMembersOnly(uid, o) == is_organization_member(o.id, uid)

(* "Users can view organizations they are members of" and                  *)
(* "Owners can view their own organizations" (both permissive: OR).        *)
OrgSelectPolicy(uid, o) ==
  is_organization_member(o.id, uid) \/ uid = o.owner_id

(* "Users can create organizations" WITH CHECK (auth.uid() = owner_id)     *)
OrgInsertPolicy(uid, o) == uid = o.owner_id

(* "Organization owners can update their organizations"                    *)
OrgUpdatePolicy(uid, o) == uid = o.owner_id

OrgDeletePolicyMember(uid, o) ==
  \E m \in organization_members : m.organization_id = o.id /\ m.user_id = uid

(* "Only owners can delete organizations"                                  *)
OrgDeletePolicy(uid, o) == uid = o.owner_id

(* "Users can view members of their organizations"                         *)
MemberSelectPolicy(uid, m) == is_organization_member(m.organization_id, uid)

(* "Users can join organizations" WITH CHECK (auth.uid() = user_id)        *)
MemberInsertPolicy(uid, m) == uid = m.user_id

(* "Users can view batches from their organizations"                       *)
BatchSelectPolicy(uid, b) == is_organization_member(b.organization_id, uid)

(* "Users can create batches in their organizations"                       *)
BatchInsertPolicy(uid, b) ==
  is_organization_member(b.organization_id, uid) /\ uid = b.created_by

BatchUpdatePolicyCreatorOnly(uid, b) == uid = b.created_by

(* "Users can update batches in their organizations"                       *)
BatchUpdatePolicy(uid, b) == is_organization_member(b.organization_id, uid)

(* "Users can delete batches in their organizations"                       *)
BatchDeletePolicy(uid, b) == is_organization_member(b.organization_id, uid)

(* (SELECT organization_id FROM public.batches WHERE batches.id = batch_id) *)
(* inside a policy of a sub-record table: evaluated for the acting user,   *)
(* NULL when the batch is missing or hidden from them.                     *)
BatchOrganization(uid, batch_id) ==
  IF \E b \in batches : b.id = batch_id /\ BatchSelectPolicy(uid, b)
    THEN (CHOOSE b \in batches : b.id = batch_id).organization_id
    ELSE NoId

(* "Members can view / insert / update / delete fermentation logs",        *)
(* "... tasting notes", "... packaging schedules": the twelve policies     *)
(* have the same expression over the row's batch_id.                       *)
RecordPolicy(uid, rec) ==
  is_organization_member(BatchOrganization(uid, rec.batch_id), uid)

(* select * from batches, as the policy layer answers it for user uid.     *)
SelectBatches(uid) == {b \in batches : BatchSelectPolicy(uid, b)}

(* select * from organizations, as the policy layer answers it for uid.    *)
SelectOrganizations(uid) == {o \in organizations : OrgSelectPolicy(uid, o)}

OrgExists(id) == \E o \in organizations : o.id = id

OrgRow(id) == CHOOSE o \in organizations : o.id = id

BatchExists(id) == \E b \in batches : b.id = id

BatchRow(id) == CHOOSE b \in batches : b.id = id

(* ---------------------------------------------------------------------- *)
(* The store: what one request does under the schema and the policies      *)
(* ---------------------------------------------------------------------- *)
NewBatchRowAtNextStage(r) ==
  [id |-> batchSeq + 1, organization_id |-> r.org,
   current_stage |-> stageTransitions(r.stage), created_by |-> r.user,
   volume |-> CHOOSE v \in r.volume : TRUE]

NewBatchRow(r) ==
  [id |-> batchSeq + 1, organization_id |-> r.org,
   current_stage |-> r.stage, created_by |-> r.user,
   volume |-> CHOOSE v \in r.volume : TRUE]

NewOrgRow(r) == [id |-> orgSeq + 1, owner_id |-> r.user, name |-> r.name]

NewMemberRow(r) == [organization_id |-> r.org, user_id |-> r.user, role |-> r.role]

NewLogRow(r) == [id |-> logSeq + 1, batch_id |-> r.batch]

NewNoteRow(r) ==
  [id |-> noteSeq + 1, batch_id |-> r.batch,
   sweetness |-> r.scores[1], acidity |-> r.scores[2], body |-> r.scores[3]]

NewScheduleRow(r) ==
  [id |-> scheduleSeq + 1, batch_id |-> r.batch, quantity |-> r.quantity,
   completed_at |-> {}]


(* An INSERT is accepted when the foreign keys, CHECK and UNIQUE           *)
(* constraints hold and the row passes the table's WITH CHECK policy.      *)
InsertAccepted(uid, r) ==
  CASE r.op = "insertBatch" ->
         /\ OrgExists(r.org)
         /\ r.stage \in StageSet
         /\ r.volume # {}            \* volume DECIMAL(10,2) NOT NULL, no CHECK
         /\ BatchInsertPolicy(uid, NewBatchRow(r))
    [] r.op = "insertOrg" -> OrgInsertPolicy(uid, NewOrgRow(r))
    [] r.op = "insertMember" ->
         /\ OrgExists(r.org)
         /\ r.role \in Roles
         /\ ~ \E m \in organization_members :
                m.organization_id = r.org /\ m.user_id = r.user
         /\ MemberInsertPolicy(uid, NewMemberRow(r))
    [] r.op = "insertLog" ->
         BatchExists(r.batch) /\ RecordPolicy(uid, NewLogRow(r))
    [] r.op = "insertNote" ->
         \* CHECK (sweetness BETWEEN 1 AND 5), likewise acidity and body
         /\ BatchExists(r.batch)
         /\ \A i \in 1..3 : r.scores[i] \in 1..5
         /\ RecordPolicy(uid, NewNoteRow(r))
    [] r.op = "insertSchedule" ->
         \* CHECK (quantity >= 0), which a null quantity passes
         /\ BatchExists(r.batch)
         /\ \A q \in r.quantity : q >= 0
         /\ RecordPolicy(uid, NewScheduleRow(r))
    [] OTHER -> FALSE

(* The rows an UPDATE or DELETE touches: those matching the request's      *)
(* filters that the USING policy lets the acting user see.  Rows the       *)
(* policy hides are skipped silently: no error is raised for them.         *)
BatchTargetsAnyOrganization(uid, r) ==
  {b \in batches :
     /\ b.id = r.batch
     /\ IF r.op = "deleteBatch" THEN BatchDeletePolicy(uid, b)
                                ELSE BatchUpdatePolicy(uid, b)}

BatchTargets(uid, r) ==
  {b \in batches :
     /\ b.id = r.batch
     /\ b.organization_id = r.org
     /\ IF r.op = "deleteBatch" THEN BatchDeletePolicy(uid, b)
                                ELSE BatchUpdatePolicy(uid, b)}

OrgTargets(uid, r) ==
  {o \in organizations :
     /\ o.id = r.org
     /\ IF r.op = "deleteOrg" THEN OrgDeletePolicy(uid, o)
                              ELSE OrgUpdatePolicy(uid, o)}

(* updatePackagingScheduleMutation / deletePackagingScheduleMutation:      *)
(* .eq('id', scheduleId) and nothing else.                                 *)
ScheduleTargets(uid, r) ==
  {p \in packaging_schedules : p.id = r.record /\ RecordPolicy(uid, p)}

Inserts ==
  {"insertBatch", "insertOrg", "insertMember", "insertLog", "insertNote", "insertSchedule"}

(* Number of rows the request changes.                                     *)
Rows(uid, r) ==
  CASE r.op \in Inserts ->
         IF InsertAccepted(uid, r) THEN 1 ELSE 0
    [] r.op \in {"updateSchedule", "deleteSchedule"} ->
         Cardinality(ScheduleTargets(uid, r))
    [] r.op \in {"updateStage", "updateBatch", "deleteBatch"} ->
         Cardinality(BatchTargets(uid, r))
    [] r.op \in {"updateOrg", "deleteOrg"} -> Cardinality(OrgTargets(uid, r))
    [] OTHER -> 0

(* Whether the store answers the request with an error.  Inserts fail on   *)
(* a constraint or policy violation; updateOrg is sent with                *)
(* .select().single(), which fails unless exactly one row comes back;      *)
(* a filtered UPDATE or DELETE without .single() never fails.              *)
StoreError(uid, r) ==
  CASE r.op \in Inserts -> ~InsertAccepted(uid, r)
    [] r.op = "updateOrg" -> Cardinality(OrgTargets(uid, r)) # 1
    [] r.op = "updateBatch" -> Cardinality(BatchTargets(uid, r)) # 1
    [] r.op = "updateSchedule" -> Cardinality(ScheduleTargets(uid, r)) # 1
    [] OTHER -> FALSE

(* REFERENCES public.batches(id) ON DELETE CASCADE on the three sub-record *)
(* tables: the rows of table that outlive the deletion of the batches gone. *)
CascadeRecordsKeepsAll(table, gone) == table

CascadeRecords(table, gone) ==
  {x \in table : \A b \in gone : x.batch_id # b.id}

(* The batches an organization delete takes with it.                       *)
CascadeBatches(gone) ==
  {b \in batches : \E o \in gone : b.organization_id = o.id}

(* The store executes request r for the authenticated user uid.            *)
StoreExec(uid, r) ==
  CASE r.op = "insertBatch" ->
         /\ batches' = IF InsertAccepted(uid, r)
                         THEN batches \cup {NewBatchRow(r)} ELSE batches
         /\ batchSeq' = IF InsertAccepted(uid, r) THEN batchSeq + 1 ELSE batchSeq
         /\ UNCHANGED <<organizations, organization_members, orgSeq, recordVars>>
    [] r.op = "updateStage" ->
         /\ batches' = {IF b \in BatchTargets(uid, r)
                          THEN [b EXCEPT !.current_stage = r.stage] ELSE b :
                        b \in batches}
         /\ UNCHANGED <<organizations, organization_members, orgSeq, batchSeq, recordVars>>
    [] r.op = "updateBatch" ->
         /\ batches' = {IF b \in BatchTargets(uid, r) /\ r.volume # {}
                          THEN [b EXCEPT !.volume = CHOOSE v \in r.volume : TRUE]
                          ELSE b :
                        b \in batches}
         /\ UNCHANGED <<organizations, organization_members, orgSeq, batchSeq, recordVars>>
    [] r.op = "deleteBatch" ->
         /\ batches' = batches \ BatchTargets(uid, r)
         /\ fermentation_logs' = CascadeRecords(fermentation_logs, BatchTargets(uid, r))
         /\ tasting_notes' = CascadeRecords(tasting_notes, BatchTargets(uid, r))
         /\ packaging_schedules' = CascadeRecords(packaging_schedules, BatchTargets(uid, r))
         /\ UNCHANGED <<organizations, organization_members, orgSeq, batchSeq,
                        logSeq, noteSeq, scheduleSeq>>
    [] r.op = "insertOrg" ->
         /\ organizations' = IF InsertAccepted(uid, r)
                               THEN organizations \cup {NewOrgRow(r)} ELSE organizations
         /\ orgSeq' = IF InsertAccepted(uid, r) THEN orgSeq + 1 ELSE orgSeq
         /\ UNCHANGED <<organization_members, batches, batchSeq, recordVars>>
    [] r.op = "insertMember" ->
         /\ organization_members' =
              IF InsertAccepted(uid, r)
                THEN organization_members \cup {NewMemberRow(r)}
                ELSE organization_members
         /\ UNCHANGED <<organizations, batches, orgSeq, batchSeq, recordVars>>
    [] r.op = "updateOrg" ->
         /\ organizations' = {IF o \in OrgTargets(uid, r)
                                THEN [o EXCEPT !.name = r.name] ELSE o :
                              o \in organizations}
         /\ UNCHANGED <<organization_members, batches, orgSeq, batchSeq, recordVars>>
    [] r.op = "deleteOrg" ->
         \* ON DELETE CASCADE: organization_members and batches of the
         \* organization, and with the batches their sub-records
         /\ organizations' = organizations \ OrgTargets(uid, r)
         /\ organization_members' =
              {m \in organization_members :
                 \A o \in OrgTargets(uid, r) : m.organization_id # o.id}
         /\ batches' = batches \ CascadeBatches(OrgTargets(uid, r))
         /\ fermentation_logs' =
              CascadeRecords(fermentation_logs, CascadeBatches(OrgTargets(uid, r)))
         /\ tasting_notes' =
              CascadeRecords(tasting_notes, CascadeBatches(OrgTargets(uid, r)))
         /\ packaging_schedules' =
              CascadeRecords(packaging_schedules, CascadeBatches(OrgTargets(uid, r)))
         /\ UNCHANGED <<orgSeq, batchSeq, logSeq, noteSeq, scheduleSeq>>
    [] r.op = "insertLog" ->
         /\ fermentation_logs' = IF InsertAccepted(uid, r)
                                   THEN fermentation_logs \cup {NewLogRow(r)}
                                   ELSE fermentation_logs
         /\ logSeq' = IF InsertAccepted(uid, r) THEN logSeq + 1 ELSE logSeq
         /\ UNCHANGED <<organizations, organization_members, batches, orgSeq, batchSeq,
                        tasting_notes, packaging_schedules, noteSeq, scheduleSeq>>
    [] r.op = "insertNote" ->
         /\ tasting_notes' = IF InsertAccepted(uid, r)
                               THEN tasting_notes \cup {NewNoteRow(r)}
                               ELSE tasting_notes
         /\ noteSeq' = IF InsertAccepted(uid, r) THEN noteSeq + 1 ELSE noteSeq
         /\ UNCHANGED <<organizations, organization_members, batches, orgSeq, batchSeq,
                        fermentation_logs, packaging_schedules, logSeq, scheduleSeq>>
    [] r.op = "insertSchedule" ->
         /\ packaging_schedules' = IF InsertAccepted(uid, r)
                                     THEN packaging_schedules \cup {NewScheduleRow(r)}
                                     ELSE packaging_schedules
         /\ scheduleSeq' = IF InsertAccepted(uid, r) THEN scheduleSeq + 1 ELSE scheduleSeq
         /\ UNCHANGED <<organizations, organization_members, batches, orgSeq, batchSeq,
                        fermentation_logs, tasting_notes, logSeq, noteSeq>>
    [] r.op = "updateSchedule" ->
         /\ packaging_schedules' =
              {IF p \in ScheduleTargets(uid, r)
                 THEN [p EXCEPT !.completed_at = r.completed_at] ELSE p :
               p \in packaging_schedules}
         /\ UNCHANGED <<organizations, organization_members, batches, orgSeq, batchSeq,
                        fermentation_logs, tasting_notes, logSeq, noteSeq, scheduleSeq>>
    [] r.op = "deleteSchedule" ->
         /\ packaging_schedules' = packaging_schedules \ ScheduleTargets(uid, r)
         /\ UNCHANGED <<organizations, organization_members, batches, orgSeq, batchSeq,
                        fermentation_logs, tasting_notes, logSeq, noteSeq, scheduleSeq>>
    [] OTHER -> UNCHANGED storeVars

(* ---------------------------------------------------------------------- *)
(* Client state                                                            *)
(* ---------------------------------------------------------------------- *)
NoMembership == [loaded |-> FALSE, organization_id |-> NoId, role |-> "none"]

NoBatchesData == [loaded |-> FALSE, org |-> NoId, rows |-> {}]

(* A query of the batch dialog that has no data yet.                       *)
NoPackagingSchedules == [batch |-> NoId, loaded |-> FALSE, rows |-> {}]

NoUpcomingPackaging == [org |-> NoId, loaded |-> FALSE, stale |-> FALSE, rows |-> {}]

NoBatch ==
  [id |-> NoId, organization_id |-> NoId, current_stage |-> NoStage, created_by |-> NoId]

(* operationLoading: null, 'create' or a batch id                          *)
OpNone == 0
OpCreate == -1

(* Dashboard.tsx: const organizationId = organization?.id                  *)
organizationId(u) == membership[u].organization_id

(* Settings.tsx: const memberRole = membership?.role                       *)
memberRole(u) == membership[u].role

(* Settings.tsx canDeleteOrganization                                      *)
canDeleteOrganization(u) == memberRole(u) = "owner" \/ memberRole(u) = "admin"

(* Dashboard.tsx isLoading is false: the page (and its handlers) is there. *)
DashboardRendered(u) ==
  /\ membership[u].loaded
  /\ organizationId(u) # NoId =>
       (batchesData[u].loaded /\ batchesData[u].org = organizationId(u))

(* App before its effect has run: user null, loading true,                *)
(* hasOrganization false; nobody is signed in, getSession() has not        *)
(* answered, no checkOrganization is awaited.                              *)
NoApp ==
  [session |-> NoId, user |-> NoId, loading |-> TRUE, hasOrganization |-> FALSE,
   getSession |-> TRUE, checks |-> {}]

Init ==
  /\ organizations = {}
  /\ organization_members = {}
  /\ batches = {}
  /\ orgSeq = 0
  /\ batchSeq = 0
  /\ fermentation_logs = {}
  /\ tasting_notes = {}
  /\ packaging_schedules = {}
  /\ logSeq = 0
  /\ noteSeq = 0
  /\ scheduleSeq = 0
  /\ membership = [u \in Users |-> NoMembership]
  /\ batchesData = [u \in Users |-> NoBatchesData]
  /\ selectedBatch = [u \in Users |-> NoBatch]
  /\ operationLoading = [u \in Users |-> OpNone]
  /\ pending = [u \in Users |-> {}]
  /\ onboarding = [u \in Users |-> NoId]
  /\ packagingSchedules = [u \in Users |-> NoPackagingSchedules]
  /\ upcomingPackaging = [u \in Users |-> NoUpcomingPackaging]
  /\ requests = 0
  /\ last = Quiet
  /\ app = NoApp

(* ---------------------------------------------------------------------- *)
(* Onboarding.handleSubmit: two inserts without a transaction              *)
(* ---------------------------------------------------------------------- *)
(* App.checkOrganization: hasOrganization = !!data && !error of the        *)
(* maybeSingle() membership lookup, which errors on more than one row.     *)
hasOrganization(u) ==
  Cardinality({m \in organization_members :
                 m.user_id = u /\ MemberSelectPolicy(u, m)}) = 1

(* First insert: organizations, owner_id = user.id, .select().single().    *)
(* ok = FALSE is a transport failure: the store is not reached.            *)
OnboardingInsertOrg(u, ok) ==
  LET r == Req("insertOrg", NoId, NoId, NoStage, u, "none", "cidery") IN
  /\ ~hasOrganization(u)
  /\ onboarding[u] = NoId
  /\ orgSeq < NumOrgs
  /\ IF ok
       THEN /\ StoreExec(u, r)
            /\ onboarding' = [onboarding EXCEPT ![u] =
                                IF StoreError(u, r) THEN NoId ELSE orgSeq + 1]
            /\ last' = Last(u, r.op, r.org, Rows(u, r), IF StoreError(u, r) THEN "Error" ELSE "none")
       ELSE /\ UNCHANGED <<storeVars, onboarding>>
            /\ last' = Last(u, "none", NoId, 0, "Error")
  /\ UNCHANGED <<app, requests, dialogVars, membership, batchesData, selectedBatch, operationLoading, pending>>

(* Second insert: organization_members, role 'owner'.  On success the      *)
(* page is reloaded (window.location.href), which drops the client state.  *)
OnboardingInsertMember(u, ok) ==
  LET r == Req("insertMember", onboarding[u], NoId, NoStage, u, "owner", "none")
      failed == ~ok \/ StoreError(u, r) IN
  /\ onboarding[u] # NoId
  /\ IF ok THEN StoreExec(u, r) ELSE UNCHANGED storeVars
  /\ onboarding' = [onboarding EXCEPT ![u] = NoId]
  /\ UNCHANGED <<app, requests>>
  /\ last' = Last(u, IF ok THEN r.op ELSE "none", IF ok THEN r.org ELSE NoId,
                  IF ok THEN Rows(u, r) ELSE 0,
                  IF failed THEN "Error" ELSE "Success!")
  /\ IF failed
       THEN UNCHANGED <<membership, batchesData, selectedBatch, operationLoading, pending,
                        dialogVars>>
       ELSE /\ membership' = [membership EXCEPT ![u] = NoMembership]
            /\ packagingSchedules' = [packagingSchedules EXCEPT ![u] = NoPackagingSchedules]
            /\ upcomingPackaging' = [upcomingPackaging EXCEPT ![u] = NoUpcomingPackaging]
            /\ batchesData' = [batchesData EXCEPT ![u] = NoBatchesData]
            /\ selectedBatch' = [selectedBatch EXCEPT ![u] = NoBatch]
            /\ operationLoading' = [operationLoading EXCEPT ![u] = OpNone]
            /\ UNCHANGED pending

(* ---------------------------------------------------------------------- *)
(* App: the auth listener, the initial session check, checkOrganization    *)
(* ---------------------------------------------------------------------- *)
(* supabase.auth.onAuthStateChange callback.  With a session (someone      *)
(* signed in, or the signed-in user's token was refreshed): setUser and,   *)
(* after setTimeout 0, checkOrganization(session.user.id), whose reply is  *)
(* then awaited.  Without one (signed out): setUser(null),                 *)
(* setHasOrganization(false), setLoading(false).                           *)
onAuthStateChange(session) ==
  /\ IF session # NoId
       THEN /\ app.session \in {NoId, session}
            /\ app' = [app EXCEPT !.session = session, !.user = session,
                                  !.checks = @ \cup {session}]
       ELSE /\ app.session # NoId
            /\ app' = [app EXCEPT !.session = NoId, !.user = NoId,
                                  !.hasOrganization = FALSE, !.loading = FALSE]
  /\ last' = Quiet
  /\ UNCHANGED <<requests, storeVars, clientVars>>

(* supabase.auth.getSession().then(...): setUser, then checkOrganization   *)
(* for a session or setLoading(false) without one.                         *)
getSession ==
  /\ app.getSession
  /\ app' = [app EXCEPT !.getSession = FALSE, !.user = app.session,
                        !.checks = IF app.session # NoId THEN @ \cup {app.session} ELSE @,
                        !.loading = IF app.session # NoId THEN @ ELSE FALSE]
  /\ last' = Quiet
  /\ UNCHANGED <<requests, storeVars, clientVars>>

(* The reply of a checkOrganization(userId) call arrives:                  *)
(* setHasOrganization(!!data && !error), or false when the call threw      *)
(* (ok = FALSE); finally setLoading(false).                                *)
checkOrganization(userId, ok) ==
  /\ userId \in app.checks
  /\ app' = [app EXCEPT !.checks = @ \ {userId},
                        !.hasOrganization = ok /\ hasOrganization(userId),
                        !.loading = FALSE]
  /\ last' = Quiet
  /\ UNCHANGED <<requests, storeVars, clientVars>>

(* App routes /dashboard and /settings: past the loading screen, user and  *)
(* hasOrganization render the page; otherwise Navigate to /auth or         *)
(* /onboarding.                                                            *)
ProtectedRouteRendered == ~app.loading /\ app.user # NoId /\ app.hasOrganization

(* ---------------------------------------------------------------------- *)
(* Queries                                                                 *)
(* ---------------------------------------------------------------------- *)
(* The membership query of Dashboard and Settings (one cache entry):       *)
(* organization_members .eq('user_id', user.id) .maybeSingle().  More      *)
(* than one row is an error, which leaves the cached data as it was.       *)
LoadMembership(u) ==
  LET rows == {m \in organization_members : m.user_id = u /\ MemberSelectPolicy(u, m)}
      m1 == CHOOSE m \in rows : TRUE
      data == IF Cardinality(rows) = 1
                THEN [loaded |-> TRUE, organization_id |-> m1.organization_id,
                      role |-> m1.role]
                ELSE IF Cardinality(rows) = 0 \/ ~membership[u].loaded
                       THEN [loaded |-> TRUE, organization_id |-> NoId, role |-> "none"]
                       ELSE membership[u] IN
  /\ onboarding[u] = NoId
  /\ membership' = [membership EXCEPT ![u] = data]
  \* the batches query is keyed by organizationId: a new key has no data yet
  /\ batchesData' = [batchesData EXCEPT ![u] =
                       IF data.organization_id = batchesData[u].org
                         THEN batchesData[u] ELSE NoBatchesData]
  /\ last' = Quiet
  /\ UNCHANGED <<app, requests, dialogVars, storeVars, selectedBatch, operationLoading, pending, onboarding>>

(* The batches query: batches .eq('organization_id', organizationId).      *)
LoadBatches(u) ==
  /\ membership[u].loaded
  /\ organizationId(u) # NoId
  /\ batchesData' = [batchesData EXCEPT ![u] =
       [loaded |-> TRUE, org |-> organizationId(u),
        rows |-> {b \in SelectBatches(u) : b.organization_id = organizationId(u)}]]
  /\ last' = Quiet
  /\ UNCHANGED <<app, requests, dialogVars, storeVars, membership, selectedBatch, operationLoading, pending, onboarding>>

(* The packaging schedules query of the batch dialog:                      *)
(* packaging_schedules .eq('batch_id', selectedBatchId).                   *)
LoadPackagingSchedules(u) ==
  /\ DashboardRendered(u)
  /\ selectedBatch[u] # NoBatch
  /\ packagingSchedules' = [packagingSchedules EXCEPT ![u] =
       [batch |-> selectedBatch[u].id, loaded |-> TRUE,
        rows |-> {p \in packaging_schedules :
                    p.batch_id = selectedBatch[u].id /\ RecordPolicy(u, p)}]]
  /\ last' = Quiet
  /\ UNCHANGED <<app, requests, upcomingPackaging, storeVars, membership, batchesData,
                 selectedBatch, operationLoading, pending, onboarding>>

(* The rows the upcoming packaging query asks for: packaging_schedules     *)
(* joined to batches (inner) .eq('batches.organization_id', organizationId) *)
(* .is('completed_at', null).                                              *)
UpcomingRowsCompletedToo(u) ==
  {p \in packaging_schedules :
     /\ RecordPolicy(u, p)
     /\ \E b \in SelectBatches(u) :
          b.id = p.batch_id /\ b.organization_id = organizationId(u)}

UpcomingRows(u) ==
  {p \in packaging_schedules :
     /\ RecordPolicy(u, p)
     /\ \E b \in SelectBatches(u) :
          b.id = p.batch_id /\ b.organization_id = organizationId(u)
     /\ p.completed_at = {}}

(* .order('target_date') .limit(n): target dates are not modelled, so any  *)
(* n of the rows may be the first n.                                       *)
Limit(rows, n) ==
  IF Cardinality(rows) <= n THEN {rows}
  ELSE {t \in SUBSET rows : Cardinality(t) = n}

(* The upcoming packaging query, first fetch or refetch after an           *)
(* invalidation.                                                           *)
LoadUpcomingPackaging(u) ==
  /\ membership[u].loaded
  /\ organizationId(u) # NoId
  /\ \E rows \in Limit(UpcomingRows(u), UpcomingLimit) :
       upcomingPackaging' = [upcomingPackaging EXCEPT ![u] =
         [org |-> organizationId(u), loaded |-> TRUE, stale |-> FALSE, rows |-> rows]]
  /\ last' = Quiet
  /\ UNCHANGED <<app, requests, packagingSchedules, storeVars, membership, batchesData,
                 selectedBatch, operationLoading, pending, onboarding>>

(* Row click in the batch table: setSelectedBatch(batch), a copy of the    *)
(* cached row.                                                             *)
SelectBatch(u, b) ==
  /\ DashboardRendered(u)
  /\ b \in batchesData[u].rows
  /\ selectedBatch' = [selectedBatch EXCEPT ![u] = b]
  \* the sub-record queries are keyed by selectedBatchId: another batch's
  \* key has no data yet
  /\ packagingSchedules' = [packagingSchedules EXCEPT ![u] =
                              IF b.id = packagingSchedules[u].batch
                                THEN packagingSchedules[u] ELSE NoPackagingSchedules]
  /\ last' = Quiet
  /\ UNCHANGED <<app, requests, upcomingPackaging, storeVars, membership, batchesData,
                 operationLoading, pending, onboarding>>

(* ---------------------------------------------------------------------- *)
(* Dashboard handlers: validation, then mutate() and onMutate              *)
(* ---------------------------------------------------------------------- *)
(* mutation.mutate(variables): every call starts a mutation of its own,    *)
(* also when an equal one is still in flight.                              *)
Enqueue(u, r) ==
  /\ Cardinality(pending[u]) < MaxPending
  /\ LET call == CHOOSE c \in 1..MaxPending : [r EXCEPT !.call = c] \notin pending[u]
     IN  pending' = [pending EXCEPT ![u] = pending[u] \cup {[r EXCEPT !.call = call]}]

CreatesInFlight ==
  Cardinality({w \in Users :
                 \E r \in pending[w] : r.op = "insertBatch" /\ r.answer = "none"})

(* handleCreateBatch: the payload carries organizationId, user.id and      *)
(* current_stage 'pressing'.  The submit button is disabled while          *)
(* createBatchMutation.isPending.                                          *)
(* volume is the form's newBatch.volume: {} when the field does not hold   *)
(* a finite number, else {v}.  The only test on it is that it is a finite  *)
(* number; the input has step 0.01 and no min.                             *)
handleCreateBatch(u, volume) ==
  /\ DashboardRendered(u)
  /\ ~ \E r \in pending[u] : r.op = "insertBatch"
  /\ IF organizationId(u) = NoId
       THEN /\ last' = Last(u, "none", NoId, 0, "Error")
            /\ UNCHANGED <<operationLoading, pending>>
       ELSE IF volume = {}
         THEN /\ last' = Last(u, "none", NoId, 0, "Invalid volume")
              /\ UNCHANGED <<operationLoading, pending>>
         ELSE /\ batchSeq + CreatesInFlight < NumBatches
              /\ Enqueue(u, [Req("insertBatch", organizationId(u), NoId, "pressing",
                                  u, "none", "none") EXCEPT !.volume = volume])
              /\ operationLoading' = [operationLoading EXCEPT ![u] = OpCreate]
              /\ last' = Quiet
  /\ UNCHANGED <<app, requests, dialogVars, storeVars, membership, batchesData, selectedBatch, onboarding>>

(* Stage tab, batch with a transition: the button calls                    *)
(* handleUpdateBatchStage(selectedBatch.id, transition.nextStage), which   *)
(* sends the target stage computed from the client's copy of the batch.    *)
handleUpdateBatchStage(u) ==
  LET transition == stageTransitions(selectedBatch[u].current_stage) IN
  /\ DashboardRendered(u)
  /\ selectedBatch[u] # NoBatch
  /\ transition # NoStage
  /\ operationLoading[u] # selectedBatch[u].id
  /\ IF organizationId(u) = NoId
       THEN /\ last' = Last(u, "none", NoId, 0, "Error")
            /\ UNCHANGED <<operationLoading, pending>>
       ELSE /\ Enqueue(u, Req("updateStage", organizationId(u), selectedBatch[u].id,
                              transition, NoId, "none", "none"))
            /\ operationLoading' = [operationLoading EXCEPT ![u] = selectedBatch[u].id]
            /\ last' = Quiet
  /\ UNCHANGED <<app, requests, dialogVars, storeVars, membership, batchesData, selectedBatch, onboarding>>

(* Stage tab, batch without a transition (bottled): no button is offered,  *)
(* the tab shows "This batch is complete!" and nothing is sent.            *)
StageTabComplete(u) ==
  /\ DashboardRendered(u)
  /\ selectedBatch[u] # NoBatch
  /\ stageTransitions(selectedBatch[u].current_stage) = NoStage
  /\ last' = Last(u, "none", NoId, 0, "This batch is complete!")
  /\ UNCHANGED <<app, requests, storeVars, clientVars>>

(* Delete tab: deleteBatchMutation.mutate({batchId, organizationId}).      *)
handleDeleteBatch(u) ==
  /\ DashboardRendered(u)
  /\ selectedBatch[u] # NoBatch
  /\ operationLoading[u] # selectedBatch[u].id
  /\ IF organizationId(u) = NoId
       THEN /\ last' = Last(u, "none", NoId, 0, "Error")
            /\ UNCHANGED <<operationLoading, pending>>
       ELSE /\ Enqueue(u, Req("deleteBatch", organizationId(u), selectedBatch[u].id,
                              NoStage, NoId, "none", "none"))
            /\ operationLoading' = [operationLoading EXCEPT ![u] = selectedBatch[u].id]
            /\ last' = Quiet
  /\ UNCHANGED <<app, requests, dialogVars, storeVars, membership, batchesData, selectedBatch, onboarding>>

(* ---------------------------------------------------------------------- *)
(* Batch dialog handlers                                                   *)
(* ---------------------------------------------------------------------- *)
(* 'Save Changes' of the details tab: like the create form, the only test  *)
(* on editFormData.volume is that it is a finite number.                   *)
SaveChanges(u, volume) ==
  /\ DashboardRendered(u)
  /\ selectedBatch[u] # NoBatch
  /\ operationLoading[u] # selectedBatch[u].id
  /\ IF organizationId(u) = NoId
       THEN /\ last' = Last(u, "none", NoId, 0, "Error")
            /\ UNCHANGED <<operationLoading, pending>>
       ELSE IF volume = {}
         THEN /\ last' = Last(u, "none", NoId, 0, "Invalid volume")
              /\ UNCHANGED <<operationLoading, pending>>
         ELSE /\ Enqueue(u, [Req("updateBatch", organizationId(u), selectedBatch[u].id,
                                  NoStage, NoId, "none", "none")
                               EXCEPT !.volume = volume])
              /\ operationLoading' = [operationLoading EXCEPT ![u] = selectedBatch[u].id]
              /\ last' = Quiet
  /\ UNCHANGED <<app, requests, dialogVars, storeVars, membership, batchesData, selectedBatch,
                 onboarding>>

(* parseOptionalNumber: a finite number as it is, anything else null.      *)
parseOptionalNumber(value) == {n \in value : n \in Int}

(* String.prototype.trim on the notes the form can hold.                   *)
trim(notes) == IF notes = " " THEN "" ELSE notes

(* JavaScript's !x for a nullable number and for a nullable string: true   *)
(* for null, for 0 and for the empty string.                               *)
NotNumber(x) == x = {} \/ x = {0}

NotString(x) == x = {} \/ x = {""}

(* handleAddFermentationLog: the payload is built with parseOptionalNumber *)
(* and notes ? notes.trim() : null, and refused when temperature,          *)
(* specific_gravity, ph and notes are all falsy.  The submit button is     *)
(* disabled while createFermentationLogMutation.isPending.                 *)
handleAddFermentationLog(u, temperature, specific_gravity, ph, notes) ==
  LET payload == [temperature |-> parseOptionalNumber(temperature),
                  specific_gravity |-> parseOptionalNumber(specific_gravity),
                  ph |-> parseOptionalNumber(ph),
                  notes |-> IF notes # "" THEN {trim(notes)} ELSE {}] IN
  /\ DashboardRendered(u)
  /\ selectedBatch[u] # NoBatch
  /\ ~ \E r \in pending[u] : r.op = "insertLog"
  /\ IF /\ NotNumber(payload.temperature) /\ NotNumber(payload.specific_gravity)
        /\ NotNumber(payload.ph) /\ NotString(payload.notes)
       THEN /\ last' = Last(u, "none", NoId, 0, "Add some data")
            /\ UNCHANGED pending
       ELSE /\ logSeq + Cardinality({w \in Users : \E r \in pending[w] : r.op = "insertLog"})
               < MaxRecords
            /\ Enqueue(u, Req("insertLog", NoId, selectedBatch[u].id, NoStage, u,
                               "none", "none"))
            /\ last' = Quiet
  /\ UNCHANGED <<app, requests, dialogVars, storeVars, membership, batchesData, selectedBatch,
                 operationLoading, onboarding>>

(* handleAddTastingNote: the payload takes sweetness, acidity and body     *)
(* from the form as they are; the one test is that aroma, flavor, finish   *)
(* or notes is filled in (details).                                        *)
handleAddTastingNote(u, scores, details) ==
  /\ DashboardRendered(u)
  /\ selectedBatch[u] # NoBatch
  /\ ~ \E r \in pending[u] : r.op = "insertNote"
  /\ IF ~details
       THEN /\ last' = Last(u, "none", NoId, 0, "Add tasting details")
            /\ UNCHANGED pending
       ELSE /\ noteSeq + Cardinality({w \in Users : \E r \in pending[w] : r.op = "insertNote"})
               < MaxRecords
            /\ Enqueue(u, [Req("insertNote", NoId, selectedBatch[u].id, NoStage, u,
                                "none", "none")
                             EXCEPT !.scores = scores])
            /\ last' = Quiet
  /\ UNCHANGED <<app, requests, dialogVars, storeVars, membership, batchesData, selectedBatch,
                 operationLoading, onboarding>>

(* handleAddPackagingPlan: a negative quantity is refused, an empty one    *)
(* is sent as null.                                                        *)
handleAddPackagingPlan(u, quantity) ==
  /\ DashboardRendered(u)
  /\ selectedBatch[u] # NoBatch
  /\ ~ \E r \in pending[u] : r.op = "insertSchedule"
  /\ IF \E q \in quantity : q < 0
       THEN /\ last' = Last(u, "none", NoId, 0, "Invalid quantity")
            /\ UNCHANGED pending
       ELSE /\ scheduleSeq
                 + Cardinality({w \in Users : \E r \in pending[w] : r.op = "insertSchedule"})
               < MaxRecords
            /\ Enqueue(u, [Req("insertSchedule", NoId, selectedBatch[u].id, NoStage, u,
                                "none", "none")
                             EXCEPT !.quantity = quantity])
            /\ last' = Quiet
  /\ UNCHANGED <<app, requests, dialogVars, storeVars, membership, batchesData, selectedBatch,
                 operationLoading, onboarding>>

(* handleMarkPackagingComplete(schedule): offered for the schedules the    *)
(* client's list shows as not completed; sends completed_at = the client's *)
(* clock, now.  The button is disabled while the update of that schedule   *)
(* is pending.                                                             *)
handleMarkPackagingComplete(u, schedule, now) ==
  /\ DashboardRendered(u)
  /\ selectedBatch[u] # NoBatch
  /\ packagingSchedules[u].batch = selectedBatch[u].id
  /\ schedule \in packagingSchedules[u].rows
  /\ schedule.completed_at = {}
  /\ ~ \E r \in pending[u] : r.op = "updateSchedule" /\ r.record = schedule.id
  /\ Enqueue(u, [Req("updateSchedule", NoId, selectedBatch[u].id, NoStage, NoId,
                      "none", "none")
                   EXCEPT !.record = schedule.id, !.completed_at = {now}])
  /\ last' = Quiet
  /\ UNCHANGED <<app, requests, dialogVars, storeVars, membership, batchesData, selectedBatch,
                 operationLoading, onboarding>>

(* ---------------------------------------------------------------------- *)
(* Settings handlers                                                       *)
(* ---------------------------------------------------------------------- *)
(* updateOrganization: updateOrganizationMutation.mutate({organizationId,  *)
(* updates: {name}}); no role check on the client.                         *)
updateOrganization(u, name) ==
  /\ membership[u].loaded
  /\ IF organizationId(u) = NoId
       THEN /\ last' = Last(u, "none", NoId, 0, "Error")
            /\ UNCHANGED pending
       ELSE /\ Enqueue(u, Req("updateOrg", organizationId(u), NoId, NoStage,
                              NoId, "none", name))
            /\ last' = Quiet
  /\ UNCHANGED <<app, requests, dialogVars, storeVars, membership, batchesData, selectedBatch, operationLoading,
                 onboarding>>

(* deleteOrganization, with DELETE typed as confirmation: refused on the   *)
(* client unless canDeleteOrganization, else the delete request is sent.   *)
(* The button is disabled while deleteOrganizationMutation.isPending.      *)
deleteOrganization(u) ==
  /\ membership[u].loaded
  /\ ~ \E r \in pending[u] : r.op = "deleteOrg"
  /\ IF organizationId(u) = NoId
       THEN /\ last' = Last(u, "none", NoId, 0, "Error")
            /\ UNCHANGED pending
       ELSE IF ~canDeleteOrganization(u)
         THEN /\ last' = Last(u, "none", NoId, 0, "Insufficient permissions")
              /\ UNCHANGED pending
         ELSE /\ Enqueue(u, Req("deleteOrg", organizationId(u), NoId, NoStage,
                                NoId, "none", "none"))
              /\ last' = Quiet
  /\ UNCHANGED <<app, requests, dialogVars, storeVars, membership, batchesData, selectedBatch, operationLoading,
                 onboarding>>

(* ---------------------------------------------------------------------- *)
(* Mutations settle: mutationFn reaches the store, then the callbacks      *)
(* ---------------------------------------------------------------------- *)
SuccessToast(r) ==
  CASE r.op = "insertBatch" -> "Batch created!"
    [] r.op = "updateStage" -> "Stage updated!"
    [] r.op = "deleteBatch" -> "Batch deleted"
    [] r.op = "updateBatch" -> "Batch updated!"
    [] r.op = "insertLog" -> "Fermentation log saved"
    [] r.op = "insertNote" -> "Tasting note added"
    [] r.op = "insertSchedule" -> "Packaging scheduled"
    [] r.op = "updateSchedule" -> "Packaging updated"
    [] r.op = "updateOrg" -> "Organization updated!"
    [] r.op = "deleteOrg" -> "Organization deleted"
    [] OTHER -> "none"

UpdatedBatchAtFirstStage(r) ==
  [BatchRow(r.batch) EXCEPT !.volume = CHOOSE v \in r.volume : TRUE,
                            !.current_stage = StageOrder[1]]

(* The row .select().single() returns for a field update: the stored row   *)
(* with the new volume.                                                    *)
UpdatedBatch(r) ==
  [BatchRow(r.batch) EXCEPT !.volume = CHOOSE v \in r.volume : TRUE]

(* The row .select().single() returns for a packaging schedule update.     *)
UpdatedSchedule(r) ==
  [(CHOOSE p \in packaging_schedules : p.id = r.record)
     EXCEPT !.completed_at = r.completed_at]

(* What mutationFn returns from the store's reply: the inserted row of a  *)
(* create, the updated row of a field update (.select().single()); the     *)
(* stage update and the delete return their own arguments.                 *)
Returned(r) ==
  CASE r.op = "insertBatch" -> {NewBatchRow(r)}
    [] r.op = "updateBatch" -> {UpdatedBatch(r)}
    [] OTHER -> {}

(* onSuccess: queryClient.setQueryData(['batches', organization id of the  *)
(* request], updater), data being the returned row.  Only the entry the    *)
(* Dashboard is showing is kept in the model; a patch to another key       *)
(* changes nothing that is shown.                                          *)
BatchesDataPatch(u, r, data) ==
  LET old == batchesData[u]
      row == CHOOSE b \in data : TRUE IN
  IF old.org # r.org THEN old
  ELSE CASE r.op = "insertBatch" ->
              \* old ? [data, ...old] : [data]
              [loaded |-> TRUE, org |-> old.org,
               rows |-> (IF old.loaded THEN old.rows ELSE {}) \cup {row}]
         [] r.op = "updateStage" ->
              \* old ? old.map(patch current_stage of batchId) : old
              [old EXCEPT !.rows = {IF b.id = r.batch
                                      THEN [b EXCEPT !.current_stage = r.stage]
                                      ELSE b : b \in old.rows}]
         [] r.op = "updateBatch" ->
              \* old ? old.map(batch.id === data.id ? data : batch) : [data]
              [loaded |-> TRUE, org |-> old.org,
               rows |-> IF old.loaded
                          THEN {IF b.id = r.batch THEN row ELSE b : b \in old.rows}
                          ELSE {row}]
         [] r.op = "deleteBatch" ->
              \* old ? old.filter(batch.id !== batchId) : []
              [loaded |-> TRUE, org |-> old.org,
               rows |-> {b \in old.rows : b.id # r.batch}]
         [] OTHER -> old

BatchesDataOnSuccess(u, r) == BatchesDataPatch(u, r, Returned(r))

(* onSuccess: setSelectedBatch                                             *)
SelectedBatchPatch(u, r, data) ==
  LET prev == selectedBatch[u]
      row == CHOOSE b \in data : TRUE IN
  CASE r.op = "updateStage" ->
         IF prev # NoBatch /\ prev.id = r.batch
           THEN [prev EXCEPT !.current_stage = r.stage] ELSE prev
    [] r.op = "updateBatch" ->
         \* prev && prev.id === data.id ? {...prev, ...data} : prev
         IF prev # NoBatch /\ prev.id = r.batch THEN row ELSE prev
    [] r.op = "deleteBatch" -> NoBatch
    [] r.op = "deleteOrg" -> NoBatch   \* signOut and navigate('/'): the page is gone
    [] OTHER -> prev

SelectedBatchOnSuccess(u, r) == SelectedBatchPatch(u, r, Returned(r))

OperationLoadingOnSuccessOnly(u, r, failed) ==
  IF failed THEN operationLoading[u]
  ELSE IF r.op \in {"insertBatch", "updateStage", "updateBatch", "deleteBatch", "deleteOrg"}
    THEN OpNone
  ELSE operationLoading[u]

(* onSettled: the batch mutations reset operationLoading to null; leaving  *)
(* the page after an organization delete drops it as well.                 *)
OperationLoadingOnSettled(u, r, failed) ==
  IF r.op \in {"insertBatch", "updateStage", "updateBatch", "deleteBatch"} THEN OpNone
  ELSE IF r.op = "deleteOrg" /\ ~failed THEN OpNone
  ELSE operationLoading[u]

(* onSuccess of the packaging mutations:                                   *)
(* setQueryData(['packaging-schedules', batch id], updater).  Only the     *)
(* entry of the selected batch is kept in the model.                       *)
PackagingSchedulesOnSuccess(u, r) ==
  LET old == packagingSchedules[u] IN
  IF r.op \notin {"insertSchedule", "updateSchedule"} \/ old.batch # r.batch THEN old
  ELSE IF r.op = "insertSchedule"
    THEN \* old ? [...old, data] : [data]
         [batch |-> old.batch, loaded |-> TRUE,
          rows |-> (IF old.loaded THEN old.rows ELSE {}) \cup {NewScheduleRow(r)}]
    ELSE \* old ? old.map(schedule.id === data.id ? data : schedule) : [data]
         [batch |-> old.batch, loaded |-> TRUE,
          rows |-> IF old.loaded
                     THEN {IF p.id = r.record THEN UpdatedSchedule(r) ELSE p : p \in old.rows}
                     ELSE {UpdatedSchedule(r)}]

(* onSuccess of the packaging mutations: if (organizationId)               *)
(* invalidateQueries(['upcoming-packaging', organizationId]).              *)
UpcomingPackagingOnSuccess(u, r) ==
  IF r.op \in {"insertSchedule", "updateSchedule"} /\ organizationId(u) # NoId
    THEN [upcomingPackaging[u] EXCEPT !.stale = TRUE]
    ELSE upcomingPackaging[u]

(* ok = FALSE is a transport failure: the request never reaches the store. *)
Settle(u, r, ok) ==
  LET failed == ~ok \/ StoreError(u, r) IN
  /\ r \in pending[u]
  /\ pending' = [pending EXCEPT ![u] = pending[u] \ {r}]
  /\ IF ok THEN StoreExec(u, r) ELSE UNCHANGED storeVars
  /\ last' = Last(u, IF ok THEN r.op ELSE "none", IF ok THEN r.org ELSE NoId,
                  IF ok THEN Rows(u, r) ELSE 0,
                  IF failed THEN "Error" ELSE SuccessToast(r))
  /\ batchesData' = [batchesData EXCEPT ![u] =
                       IF failed THEN batchesData[u] ELSE BatchesDataOnSuccess(u, r)]
  /\ selectedBatch' = [selectedBatch EXCEPT ![u] =
                         IF failed THEN selectedBatch[u] ELSE SelectedBatchOnSuccess(u, r)]
  /\ operationLoading' = [operationLoading EXCEPT ![u] =
                            OperationLoadingOnSettled(u, r, failed)]
  /\ packagingSchedules' = [packagingSchedules EXCEPT ![u] =
       IF failed THEN packagingSchedules[u] ELSE PackagingSchedulesOnSuccess(u, r)]
  /\ upcomingPackaging' = [upcomingPackaging EXCEPT ![u] =
       IF failed THEN upcomingPackaging[u] ELSE UpcomingPackagingOnSuccess(u, r)]
  /\ UNCHANGED <<app, requests, membership, onboarding>>

(* The batch mutations of the Dashboard.                                   *)
BatchMutationOps == {"insertBatch", "updateBatch", "updateStage", "deleteBatch"}

(* Settle in two steps, for a batch mutation.  Execute: the request        *)
(* reaches the store (ok) or is lost, and the answer sets off to the       *)
(* client; the mutation stays in flight.  Deliver: the answer arrives and  *)
(* onSuccess or onError, then onSettled, run with the row it carries.      *)
(* Answers of different requests arrive in any order.                      *)
Execute(u, r, ok) ==
  LET failed == ~ok \/ StoreError(u, r)
      a == [r EXCEPT !.answer = IF failed THEN "error" ELSE "ok",
                     !.data = IF failed THEN {} ELSE Returned(r)] IN
  /\ r \in pending[u]
  /\ r.op \in BatchMutationOps
  /\ r.answer = "none"
  /\ IF ok THEN StoreExec(u, r) ELSE UNCHANGED storeVars
  /\ pending' = [pending EXCEPT ![u] = (pending[u] \ {r}) \cup {a}]
  /\ last' = Last(u, IF ok THEN r.op ELSE "none", IF ok THEN r.org ELSE NoId,
                  IF ok THEN Rows(u, r) ELSE 0, "none")
  /\ UNCHANGED <<app, requests, dialogVars, membership, batchesData, selectedBatch,
                 operationLoading, onboarding>>

Deliver(u, a) ==
  LET failed == a.answer = "error" IN
  /\ a \in pending[u]
  /\ a.op \in BatchMutationOps
  /\ a.answer # "none"
  /\ pending' = [pending EXCEPT ![u] = pending[u] \ {a}]
  /\ batchesData' = [batchesData EXCEPT ![u] =
                       IF failed THEN batchesData[u] ELSE BatchesDataPatch(u, a, a.data)]
  /\ selectedBatch' = [selectedBatch EXCEPT ![u] =
                         IF failed THEN selectedBatch[u] ELSE SelectedBatchPatch(u, a, a.data)]
  /\ operationLoading' = [operationLoading EXCEPT ![u] =
                            OperationLoadingOnSettled(u, a, failed)]
  /\ last' = Last(u, "none", NoId, 0, IF failed THEN "Error" ELSE SuccessToast(a))
  /\ UNCHANGED <<app, requests, dialogVars, storeVars, membership, onboarding>>

(* ---------------------------------------------------------------------- *)
(* Requests sent to the store's REST interface without the pages           *)
(* ---------------------------------------------------------------------- *)
(* Any authenticated user can send the store a request of any shape; the   *)
(* schema and the policies alone decide what it does.                      *)
RawRequests ==
  {Req("insertMember", o, NoId, NoStage, w, role, "none") :
     o \in OrgIds, w \in Users, role \in Roles}
  \cup {[Req("insertBatch", o, NoId, st, w, "none", "none") EXCEPT !.volume = {v}] :
          o \in OrgIds, st \in StageSet, w \in Users, v \in RawVolumes}
  \cup {[Req("updateBatch", o, b, NoStage, NoId, "none", "none") EXCEPT !.volume = {v}] :
          o \in OrgIds, b \in BatchIds, v \in RawVolumes}
  \cup {Req("updateStage", o, b, st, NoId, "none", "none") :
          o \in OrgIds, b \in BatchIds, st \in StageSet}
  \cup {Req("deleteBatch", o, b, NoStage, NoId, "none", "none") :
          o \in OrgIds, b \in BatchIds}
  \cup {Req("insertOrg", NoId, NoId, NoStage, w, "none", "cidery") : w \in Users}
  \cup {Req("updateOrg", o, NoId, NoStage, NoId, "none", n) :
          o \in OrgIds, n \in OrgNames}
  \cup {Req("deleteOrg", o, NoId, NoStage, NoId, "none", "none") : o \in OrgIds}

RawRequest(u, r) ==
  /\ r.op = "insertBatch" => batchSeq + CreatesInFlight < NumBatches
  /\ r.op = "insertOrg" => orgSeq < NumOrgs /\ \A w \in Users : onboarding[w] = NoId
  /\ StoreExec(u, r)
  /\ requests' = requests + 1
  /\ last' = Last(u, r.op, r.org, Rows(u, r), "none")
  /\ UNCHANGED <<app, clientVars>>

(* A user joins an organization: the one raw request the pages rely on to  *)
(* have members besides the creator (there is no invitation page).         *)
JoinOrganization(u, o, role) ==
  /\ StoreExec(u, Req("insertMember", o, NoId, NoStage, u, role, "none"))
  /\ last' = Quiet
  /\ UNCHANGED <<app, requests, clientVars>>

(* The requests the pages send for a member of an organization, on the     *)
(* organization and its batches: new batch, new fermentation log, tasting  *)
(* note and packaging schedule, organization delete.                       *)
MemberRequests(u) ==
  LET orgs == {m.organization_id : m \in {x \in organization_members : x.user_id = u}}
      mine == {b.id : b \in {x \in batches : x.organization_id \in orgs}} IN
  {[Req("insertBatch", o, NoId, "pressing", u, "none", "none")
      EXCEPT !.volume = {v}] : o \in orgs, v \in UsualVolumes}
  \cup {Req("insertLog", NoId, b, NoStage, NoId, "none", "none") : b \in mine}
  \cup {[Req("insertNote", NoId, b, NoStage, NoId, "none", "none")
           EXCEPT !.scores = <<3, 3, 3>>] : b \in mine}
  \cup {Req("insertSchedule", NoId, b, NoStage, NoId, "none", "none") : b \in mine}
  \cup {Req("deleteOrg", o, NoId, NoStage, NoId, "none", "none") : o \in orgs}

(* One such request reaches the store; the client side is left out.        *)
StoreRequest(u, r) ==
  /\ r.op = "insertBatch" => batchSeq < NumBatches
  /\ r.op = "insertLog" => logSeq < MaxRecords
  /\ r.op = "insertNote" => noteSeq < MaxRecords
  /\ r.op = "insertSchedule" => scheduleSeq < MaxRecords
  /\ StoreExec(u, r)
  /\ last' = Quiet
  /\ UNCHANGED <<app, requests, clientVars>>

(* ---------------------------------------------------------------------- *)
(* Specifications                                                          *)
(* ---------------------------------------------------------------------- *)
OnboardingPage(u) ==
  \/ \E ok \in BOOLEAN : OnboardingInsertOrg(u, ok)
  \/ \E ok \in BOOLEAN : OnboardingInsertMember(u, ok)

DashboardPage(u) ==
  \/ LoadMembership(u)
  \/ LoadBatches(u)
  \/ \E b \in batchesData[u].rows : SelectBatch(u, b)
  \/ \E v \in UsualVolumes : handleCreateBatch(u, {v})
  \/ handleUpdateBatchStage(u)
  \/ StageTabComplete(u)
  \/ handleDeleteBatch(u)
  \/ \E r \in pending[u] : \E ok \in BOOLEAN : Settle(u, r, ok)

(* The forms of the Dashboard with whatever their fields can hold: new     *)
(* batch, and the details, tasting and packaging tabs of the selected      *)
(* batch's dialog.                                                         *)
BatchForms(u) ==
  \/ \E v \in FormVolumes : handleCreateBatch(u, v)
  \/ \E v \in FormVolumes : SaveChanges(u, v)
  \/ \E sc \in FormScores : \E details \in BOOLEAN : handleAddTastingNote(u, sc, details)
  \/ \E q \in FormQuantities : handleAddPackagingPlan(u, q)

(* The packaging roadmap of the selected batch and the upcoming packaging  *)
(* card: a plan is added with the form left as it is, shown, and marked    *)
(* complete.                                                               *)
PackagingRoadmap(u) ==
  \/ LoadPackagingSchedules(u)
  \/ LoadUpcomingPackaging(u)
  \/ handleAddPackagingPlan(u, {})
  \/ \E p \in packagingSchedules[u].rows : \E now \in Times :
       handleMarkPackagingComplete(u, p, now)

(* Opening a batch's dialog: the batch is created with a usual volume,     *)
(* listed and selected.                                                    *)
OpenBatch(u) ==
  \/ LoadMembership(u)
  \/ LoadBatches(u)
  \/ \E b \in batchesData[u].rows : SelectBatch(u, b)
  \/ \E v \in UsualVolumes : handleCreateBatch(u, {v})
  \/ \E r \in pending[u] : \E ok \in BOOLEAN : Settle(u, r, ok)

SettingsPage(u) ==
  \/ LoadMembership(u)
  \/ \E n \in OrgNames : updateOrganization(u, n)
  \/ deleteOrganization(u)
  \/ \E r \in pending[u] : \E ok \in BOOLEAN : Settle(u, r, ok)

Join == \E u \in Users, o \in OrgIds, role \in Roles : JoinOrganization(u, o, role)

(* The users share SharedOrgs organizations and SharedBatches batches.     *)
SharedBound ==
  /\ orgSeq <= SharedOrgs
  /\ batchSeq + CreatesInFlight <= SharedBatches

(* Spec: the users of one organization work on its batches through their   *)
(* Dashboards at the same time.                                            *)
Next ==
  /\ \/ \E u \in Users : OnboardingPage(u)
     \/ \E u \in Users : DashboardPage(u)
     \/ Join
  /\ SharedBound'

Spec == Init /\ [][Next]_vars

(* SpecSettings: the users of one organization, in their several roles,    *)
(* work on the organization through their Settings pages.                  *)
NextSettings ==
  /\ \/ \E u \in Users : OnboardingPage(u)
     \/ \E u \in Users : SettingsPage(u)
     \/ Join
  /\ SharedBound'

SpecSettings == Init /\ [][NextSettings]_vars

(* SpecSolo: one user creates an organization and works on its batches     *)
(* through the Dashboard, with nobody else writing, and waits for each     *)
(* mutation to settle before starting the next.                            *)
SoloUser == CHOOSE u \in Users : \A w \in Users : u <= w

OneAtATime == Cardinality(pending[SoloUser]) <= 1

NextSolo ==
  /\ \/ OnboardingPage(SoloUser)
     \/ DashboardPage(SoloUser)
  /\ OneAtATime'

SpecSolo == Init /\ [][NextSolo]_vars

(* SpecDialog: one user creates an organization and a batch and submits   *)
(* the forms of the batch's dialog, with nobody else writing, one mutation *)
(* at a time.                                                              *)
NextDialog ==
  /\ \/ OnboardingPage(SoloUser)
     \/ OpenBatch(SoloUser)
     \/ BatchForms(SoloUser)
  /\ OneAtATime'

SpecDialog == Init /\ [][NextDialog]_vars

(* SpecPackaging: one user plans the packaging of a batch and marks it     *)
(* complete, with nobody else writing, one mutation at a time.             *)
NextPackaging ==
  /\ \/ OnboardingPage(SoloUser)
     \/ OpenBatch(SoloUser)
     \/ PackagingRoadmap(SoloUser)
  /\ OneAtATime'

SpecPackaging == Init /\ [][NextPackaging]_vars

(* SpecRoadmap: the members of one organization work on the packaging     *)
(* roadmap of its batches through their Dashboards at the same time.       *)
NextRoadmap ==
  /\ \/ \E u \in Users : OnboardingPage(u)
     \/ \E u \in Users : OpenBatch(u)
     \/ \E u \in Users : PackagingRoadmap(u)
     \/ Join
  /\ SharedBound'

SpecRoadmap == Init /\ [][NextRoadmap]_vars

(* SpecMembers: users create organizations through onboarding and join     *)
(* organizations; no page is open.                                         *)
NextMembers ==
  \/ \E u \in Users : OnboardingPage(u)
  \/ Join

SpecMembers == Init /\ [][NextMembers]_vars

(* SpecCascade: users create organizations through onboarding, one after   *)
(* the other, and fill them with batches and sub-records, then delete      *)
(* organizations; the store alone is observed.  Sub-records are entered    *)
(* for the batch created last: its fermentation log, then its tasting      *)
(* note, then its packaging schedule.                                      *)
OneOnboarding == Cardinality({u \in Users : onboarding[u] # NoId}) <= 1

RecordOrder(r) ==
  /\ r.op \in {"insertLog", "insertNote", "insertSchedule"} => r.batch = batchSeq
  /\ r.op = "insertNote" => noteSeq < logSeq
  /\ r.op = "insertSchedule" => scheduleSeq < noteSeq

NextCascade ==
  /\ \/ \E u \in Users : OnboardingPage(u)
     \/ \E u \in Users : \E r \in MemberRequests(u) :
          RecordOrder(r) /\ StoreRequest(u, r)
  /\ OneOnboarding'

SpecCascade == Init /\ [][NextCascade]_vars

(* SpecBatchWrites: members fill their organizations with batches, and up  *)
(* to MaxRequests times a member of a batch's organization sends a stage   *)
(* update, field update or delete of the batch under the id of another     *)
(* organization.                                                           *)
BatchWriteOps == {"updateStage", "updateBatch", "deleteBatch"}

BatchWrites == {r \in RawRequests : r.op \in BatchWriteOps}

WrongOrganization(u, r) ==
  /\ BatchExists(r.batch)
  /\ BatchRow(r.batch).organization_id # r.org
  /\ \E m \in organization_members :
       m.user_id = u /\ m.organization_id = BatchRow(r.batch).organization_id

NextBatchWrites ==
  /\ \/ \E u \in Users : OnboardingPage(u)
     \/ \E u \in Users : \E r \in MemberRequests(u) :
          r.op = "insertBatch" /\ StoreRequest(u, r)
     \/ /\ requests < MaxRequests
        /\ \E u \in Users : \E r \in BatchWrites :
             WrongOrganization(u, r) /\ RawRequest(u, r)
  /\ OneOnboarding'

SpecBatchWrites == Init /\ [][NextBatchWrites]_vars

(* SpecRace: one user creates an organization and a batch, a second       *)
(* user joins it as a member, and the two list, select and advance its     *)
(* one batch through their Dashboards at the same time.                    *)
Colleague == CHOOSE u \in Users \ {SoloUser} : \A w \in Users \ {SoloUser} : u <= w

OneBatch == orgSeq <= SharedOrgs /\ batchSeq + CreatesInFlight <= 1

StageTab(u) ==
  \/ LoadMembership(u)
  \/ LoadBatches(u)
  \/ \E b \in batchesData[u].rows : SelectBatch(u, b)
  \/ handleUpdateBatchStage(u)
  \/ \E r \in pending[u] : \E ok \in BOOLEAN : Settle(u, r, ok)

NextRace ==
  /\ \/ OnboardingPage(SoloUser)
     \/ \E v \in UsualVolumes : handleCreateBatch(SoloUser, {v})
     \/ \E o \in OrgIds : JoinOrganization(Colleague, o, "member")
     \/ StageTab(SoloUser)
     \/ StageTab(Colleague)
  /\ OneBatch'

SpecRace == Init /\ [][NextRace]_vars

(* SpecEdit: as SpecRace, and the two members also edit the batch in the   *)
(* details tab of its dialog.                                              *)
NextEdit ==
  \/ NextRace
  \/ /\ \E u \in {SoloUser, Colleague} : \E v \in Volumes : SaveChanges(u, {v})
     /\ OneBatch'

SpecEdit == Init /\ [][NextEdit]_vars

(* SpecBatch: one user creates an organization and creates, edits,        *)
(* advances and deletes its batches through the Dashboard, with nobody     *)
(* else writing, one mutation at a time.                                   *)
NextBatch ==
  \/ NextSolo
  \/ /\ \E v \in RawVolumes : SaveChanges(SoloUser, {v})
     /\ OneAtATime'

SpecBatch == Init /\ [][NextBatch]_vars

(* SpecOverlap: one user creates an organization and works on its batches  *)
(* through the Dashboard, with nobody else writing, and starts a mutation  *)
(* whenever the page lets them, whether or not another is in flight.       *)
NextOverlap ==
  \/ OnboardingPage(SoloUser)
  \/ DashboardPage(SoloUser)

SpecOverlap == Init /\ [][NextOverlap]_vars

(* SpecReplies: one user creates an organization and creates, edits,      *)
(* advances and deletes a batch through the Dashboard, starting a mutation *)
(* whenever the page lets them, with nobody else writing; the store's      *)
(* answers travel back to the client on their own.                         *)
NextReplies ==
  /\ \/ OnboardingPage(SoloUser)
     \/ LoadMembership(SoloUser)
     \/ LoadBatches(SoloUser)
     \/ \E b \in batchesData[SoloUser].rows : SelectBatch(SoloUser, b)
     \/ \E v \in UsualVolumes : handleCreateBatch(SoloUser, {v})
     \/ handleUpdateBatchStage(SoloUser)
     \/ \E v \in RawVolumes : SaveChanges(SoloUser, {v})
     \/ handleDeleteBatch(SoloUser)
     \/ \E r \in pending[SoloUser] : \E ok \in BOOLEAN : Execute(SoloUser, r, ok)
     \/ \E a \in pending[SoloUser] : Deliver(SoloUser, a)
  /\ SharedBound'

SpecReplies == Init /\ [][NextReplies]_vars

(* SpecAuth: users create organizations through onboarding, one after the  *)
(* other, while in one browser users sign in and out and the App's         *)
(* session check and organization checks answer in any order.              *)
NextAuth ==
  \/ /\ \E u \in Users : OnboardingPage(u)
     /\ OneOnboarding'
  \/ \E session \in Users \cup {NoId} : onAuthStateChange(session)
  \/ getSession
  \/ \E userId \in app.checks : \E ok \in BOOLEAN : checkOrganization(userId, ok)

SpecAuth == Init /\ [][NextAuth]_vars

(* SpecLogs: one user creates an organization and a batch and submits the *)
(* fermentation log form of the batch's dialog with whatever its fields    *)
(* can hold, with nobody else writing, one mutation at a time.             *)
NextLogs ==
  /\ \/ OnboardingPage(SoloUser)
     \/ OpenBatch(SoloUser)
     \/ \E temperature, specific_gravity, ph \in FormMetrics : \E notes \in FormNotes :
          handleAddFermentationLog(SoloUser, temperature, specific_gravity, ph, notes)
  /\ OneAtATime'

SpecLogs == Init /\ [][NextLogs]_vars

(* SpecStore: the store alone, driven by up to MaxRequests arbitrary       *)
(* requests of authenticated users.                                        *)
NextStore ==
  /\ requests < MaxRequests
  /\ \E u \in Users : \E r \in RawRequests : RawRequest(u, r)

SpecStore == Init /\ [][NextStore]_vars

TypeOK ==
  /\ orgSeq \in 0..NumOrgs
  /\ batchSeq \in 0..NumBatches
  /\ \A o \in organizations : o.id \in OrgIds /\ o.owner_id \in Users
  /\ \A b \in batches :
       b.id \in BatchIds /\ b.current_stage \in StageSet /\ b.volume \in Volumes
  /\ logSeq \in 0..MaxRecords /\ noteSeq \in 0..MaxRecords
  /\ scheduleSeq \in 0..MaxRecords
  \* foreign keys of the sub-record tables
  /\ \A x \in fermentation_logs \cup tasting_notes \cup packaging_schedules :
       x.id \in RecordIds /\ BatchExists(x.batch_id)

(* ---------------------------------------------------------------------- *)
(* Properties                                                              *)
(* ---------------------------------------------------------------------- *)
IsMemberOf(u, o) ==
  \E m \in organization_members : m.organization_id = o /\ m.user_id = u

HasRole(u, o, role) ==
  \E m \in organization_members :
    m.organization_id = o /\ m.user_id = u /\ m.role = role

(* C1: under any interleaving of operations issued by members of the       *)
(* batch's organization (stale clients included), no step moves a batch's  *)
(* stored current_stage to an earlier stage of pressing < fermenting <     *)
(* aging < bottled, and a bottled batch stays bottled.  In Spec every      *)
(* write comes from the Dashboard of a member of the organization.         *)
C1_StageNeverMovesBack ==
  [][\A b \in batches : \A c \in batches' :
       c.id = b.id =>
         /\ StageIndex(c.current_stage) >= StageIndex(b.current_stage)
         /\ b.current_stage = "bottled" => c.current_stage = "bottled"]_vars

(* C2: every stage write that changes a row writes the single defined      *)
(* successor of the stage stored for that batch at the moment of the       *)
(* write; the caller's choice of target stage is never what is stored.     *)
C2_WriteIsSuccessorOfStored ==
  [][\A u \in Users : \A r \in pending[u] :
       (Settle(u, r, TRUE) /\ r.op = "updateStage" /\ BatchTargets(u, r) # {})
         => r.stage = stageTransitions(BatchRow(r.batch).current_stage)]_vars

(* C3: for every organization, user and content of organization_members,  *)
(* is_organization_member(org, user) is true exactly when a membership     *)
(* row with that organization_id and that user_id exists, whatever its     *)
(* role; in particular it is false for a user who is not a member of an    *)
(* organization that has other members.                                    *)
C3_PredicateIffMembershipRow ==
  \A o \in OrgIds : \A u \in Users :
    is_organization_member(o, u) <=> IsMemberOf(u, o)

(* C4: a user reads a batch only if a membership row joins that user to    *)
(* the organization the batch belongs to.                                  *)
C4_ReadsOnlyOwnOrganization ==
  \A u \in Users : \A b \in SelectBatches(u) : IsMemberOf(u, b.organization_id)

(* C5: the store accepts a batch insert only from a member of the row's    *)
(* organization_id who is also its created_by, and changes or removes a    *)
(* batch only for a member of the batch's organization.                    *)
C5_BatchWritesNeedMembership ==
  [][\A u \in Users : \A r \in RawRequests :
       RawRequest(u, r) =>
         /\ (r.op = "insertBatch" /\ batches' # batches)
              => (IsMemberOf(u, r.org) /\ r.user = u)
         /\ (r.op \in {"updateStage", "deleteBatch"} /\ batches' # batches)
              => IsMemberOf(u, r.org)]_vars

C7_AdminDeleteRemovesOrganization ==
  [][\A u \in Users :
       /\ \A r \in pending[u] :
            ( /\ Settle(u, r, TRUE)
              /\ r.op = "deleteOrg"
              /\ OrgExists(r.org)
              /\ HasRole(u, r.org, "admin") )
              => \A o \in organizations' : o.id # r.org
       /\ (deleteOrganization(u) /\ memberRole(u) = "member")
            => (pending' = pending /\ last'.toast = "Insufficient permissions")]_vars

(* The authorization layer refuses request r of user uid: the row it names *)
(* exists, and no policy lets uid change it.                               *)
Denied(uid, r) ==
  CASE r.op \in {"updateStage", "deleteBatch"} ->
         /\ BatchExists(r.batch)
         /\ BatchRow(r.batch).organization_id = r.org
         /\ BatchTargets(uid, r) = {}
    [] r.op = "deleteOrg" -> OrgExists(r.org) /\ OrgTargets(uid, r) = {}
    [] OTHER -> FALSE

(* C8: a stage update, batch delete or organization delete that the        *)
(* authorization layer refuses settles as a failure: the caller sees an    *)
(* error, and no success toast, cache patch or sign-out follows.           *)
C8_DenialSurfacesAsFailure ==
  [][\A u \in Users : \A r \in pending[u] :
       (Settle(u, r, TRUE) /\ Denied(u, r)) =>
          /\ last'.toast = "Error"
          /\ UNCHANGED <<batchesData, selectedBatch>>]_vars

(* The stage that follows s in pressing < fermenting < aging < bottled.     *)
Successor(s) ==
  IF StageIndex(s) < Len(StageOrder) THEN StageOrder[StageIndex(s) + 1] ELSE NoStage

(* C9: with one client and nobody else writing, every advance that reaches *)
(* the store while its batch exists succeeds and                           *)
(* moves the stored stage of its batch to the next stage of the order      *)
(* pressing, fermenting, aging, bottled, no step changes a stored stage in *)
(* any other way, and a bottled batch's stage changes no more: a batch     *)
(* created at pressing is advanced exactly three times.                    *)
C9_AdvancesVisitEachStageInOrder ==
  [][/\ \A b \in batches : \A c \in batches' :
          (c.id = b.id /\ c.current_stage # b.current_stage)
            => (b.current_stage # "bottled" /\ c.current_stage = Successor(b.current_stage))
     /\ \A r \in pending[SoloUser] :
          ( /\ Settle(SoloUser, r, TRUE)
            /\ r.op = "updateStage"
            /\ BatchExists(r.batch) )
            => /\ last'.toast = "Stage updated!"
               /\ BatchRow(r.batch).current_stage # "bottled"
               /\ [BatchRow(r.batch) EXCEPT
                     !.current_stage = Successor(BatchRow(r.batch).current_stage)]
                    \in batches']_vars

C9_Witness ==
  /\ last.op = "updateStage"
  /\ last.rows = 1
  /\ last.toast = "Stage updated!"
  /\ \E b \in batches : b.current_stage = "bottled" /\ selectedBatch[SoloUser] = b

(* C10: while the selected batch is bottled the Dashboard sends no stage    *)
(* write; the stage tab answers "This batch is complete!" and the store,   *)
(* the cache and the queue of requests stay as they are.  A successful     *)
(* advance of a batch stored at pressing sets that batch to fermenting and *)
(* leaves every other batch unchanged.                                     *)
C10_BottledNoOpPressingToFermenting ==
  [][LET u == SoloUser IN
     /\ (selectedBatch[u] # NoBatch /\ selectedBatch[u].current_stage = "bottled")
          => \A r \in pending'[u] \ pending[u] : r.op # "updateStage"
     /\ StageTabComplete(u)
          => /\ selectedBatch[u].current_stage = "bottled"
             /\ last'.toast = "This batch is complete!"
             /\ UNCHANGED <<storeVars, batchesData, selectedBatch, pending>>
     /\ \A r \in pending[u] :
          ( /\ Settle(u, r, TRUE)
            /\ r.op = "updateStage"
            /\ BatchExists(r.batch)
            /\ BatchRow(r.batch).current_stage = "pressing" )
            => batches' = (batches \ {BatchRow(r.batch)})
                            \cup {[BatchRow(r.batch) EXCEPT !.current_stage = "fermenting"]}]_vars

C10_Witness ==
  /\ last.toast = "This batch is complete!"
  /\ Cardinality(batches) = 2
  /\ \E b \in batches : b.current_stage = "bottled" /\ selectedBatch[SoloUser] = b
  /\ \E b \in batches : b.current_stage = "fermenting"

(* C11: whenever no onboarding attempt is between its two inserts, every     *)
(* organization row has a membership row joining its owner_id user to it   *)
(* with role owner: onboarding leaves both rows or neither, also when its  *)
(* second insert fails.                                                    *)
C11_OrganizationHasOwnerMembership ==
  \A o \in organizations :
    (\A u \in Users : onboarding[u] # o.id) => HasRole(o.owner_id, o.id, "owner")

(* The organization has no membership row at all.                          *)
Orphan(o) == \A m \in organization_members : m.organization_id # o.id

(* C12: an onboarding whose membership insert fails leaves its             *)
(* organization without any membership row; such an organization is read   *)
(* by the user named by its owner_id, for whom is_organization_member is   *)
(* false, and by no other user.                                            *)
C12_OrphanReadableByOwnerOnly ==
  [][/\ \A u \in Users : \A ok \in BOOLEAN :
          ( /\ OnboardingInsertMember(u, ok)
            /\ last'.toast = "Error" )
            => \E o \in organizations' :
                 /\ o.id = onboarding[u]
                 /\ \A m \in organization_members' : m.organization_id # o.id
     /\ \A o \in organizations :
          Orphan(o) =>
            /\ ~is_organization_member(o.id, o.owner_id)
            /\ \A u \in Users : (o \in SelectOrganizations(u)) <=> (u = o.owner_id)]_vars

C12_Witness ==
  /\ last.toast = "Error"
  /\ last.user = SoloUser
  /\ onboarding[SoloUser] = NoId
  /\ \E o \in organizations :
       o.owner_id = SoloUser /\ Orphan(o) /\ o \in SelectOrganizations(SoloUser)

(* C13: every user has at most one membership row across all               *)
(* organizations, so a lookup of the user's membership finds at most one.  *)
C13_AtMostOneMembershipPerUser ==
  \A u \in Users :
    Cardinality({m \in organization_members : m.user_id = u}) <= 1

(* C14: at most one membership row of an organization has role owner, and  *)
(* that row's user_id is the organization's owner_id.                      *)
C14_OneOwnerPerOrganization ==
  \A o \in organizations :
    \A m \in organization_members :
      (m.organization_id = o.id /\ m.role = "owner") => m.user_id = o.owner_id

(* The sub-records of the batches in bs.                                   *)
RecordsOf(table, bs) == {x \in table : \E b \in bs : x.batch_id = b.id}

BatchesOf(o) == {b \in batches : b.organization_id = o.id}

(* C15: a step that deletes an organization leaves no membership row, no   *)
(* batch and no fermentation log, tasting note or packaging schedule of    *)
(* that organization, and leaves every row of the other organizations as   *)
(* it was.                                                                 *)
C15_OrganizationDeleteCascades ==
  [][\A o \in organizations :
       o \notin organizations' =>
         /\ \A m \in organization_members' : m.organization_id # o.id
         /\ \A b \in batches' : b.organization_id # o.id
         /\ RecordsOf(fermentation_logs', BatchesOf(o)) = {}
         /\ RecordsOf(tasting_notes', BatchesOf(o)) = {}
         /\ RecordsOf(packaging_schedules', BatchesOf(o)) = {}
         /\ organizations' = organizations \ {o}
         /\ organization_members' =
              {m \in organization_members : m.organization_id # o.id}
         /\ batches' = batches \ BatchesOf(o)
         /\ fermentation_logs' =
              fermentation_logs \ RecordsOf(fermentation_logs, BatchesOf(o))
         /\ tasting_notes' = tasting_notes \ RecordsOf(tasting_notes, BatchesOf(o))
         /\ packaging_schedules' =
              packaging_schedules \ RecordsOf(packaging_schedules, BatchesOf(o))]_vars

(* An organization with a member, a batch and one sub-record of each kind  *)
(* has been deleted, and another organization with a member and a batch    *)
(* is still there.                                                         *)
C15_Witness ==
  /\ \E id \in 1..orgSeq : ~OrgExists(id)
  /\ logSeq = 1 /\ noteSeq = 1 /\ scheduleSeq = 1
  /\ fermentation_logs = {} /\ tasting_notes = {} /\ packaging_schedules = {}
  /\ batchSeq = 2 /\ Cardinality(batches) = 1
  /\ \E o \in organizations :
       /\ \E m \in organization_members : m.organization_id = o.id
       /\ \E b \in batches : b.organization_id = o.id

(* C16: submitting the new batch form with a negative or zero volume       *)
(* (-5, 0) is refused before any insert request is made, with a positive   *)
(* volume (12.5) the insert is made, and no stored batch ever has a volume *)
(* that is not positive.                                                   *)
C16_NonPositiveVolumeNeverStored ==
  [][/\ \A u \in Users : \A v \in Volumes :
          (handleCreateBatch(u, {v}) /\ organizationId(u) # NoId)
            => IF v > 0 THEN \E r \in pending'[u] : r.op = "insertBatch" /\ r.volume = {v}
                        ELSE pending' = pending
     /\ \A b \in batches' : b.volume > 0]_vars

(* C17: no step of a client starts a tasting note insert whose sweetness,  *)
(* acidity or body is outside 1..5, a packaging schedule insert whose      *)
(* quantity is negative, or a batch field update whose volume is negative: *)
(* the handlers refuse such forms before anything is sent.                 *)
C17_HandlersRefuseOutOfRangeForms ==
  [][\A u \in Users : \A r \in pending'[u] \ pending[u] :
       /\ r.op = "insertNote" => \A i \in 1..3 : r.scores[i] \in 1..5
       /\ r.op = "insertSchedule" => \A q \in r.quantity : q >= 0
       /\ r.op = "updateBatch" => \A v \in r.volume : v >= 0]_vars

(* C18: once a packaging schedule's completed_at is set, no later step,   *)
(* a second 'Mark complete' from a client with a stale list included,      *)
(* sets it to null or to another timestamp.                                *)
C18_CompletedAtSetOnce ==
  [][\A p \in packaging_schedules : \A q \in packaging_schedules' :
       (q.id = p.id /\ p.completed_at # {}) => q.completed_at = p.completed_at]_vars

(* The packaging schedules of the batches of organization o.              *)
SchedulesOfOrganization(o) ==
  {p \in packaging_schedules :
     \E b \in batches : b.id = p.batch_id /\ b.organization_id = o}

OpenSchedules(o) == {p \in SchedulesOfOrganization(o) : p.completed_at = {}}

(* C19: with one client, a fetch of the upcoming packaging query returns   *)
(* the schedules of the user's organization whose completed_at is null     *)
(* (all of them while they are no more than the limit of 5) and no         *)
(* completed one; a successful 'Mark complete' stores the timestamp,       *)
(* shows the schedule with it in the batch's list (while that batch is     *)
(* the one selected) and invalidates the upcoming query, whose refetch     *)
(* then leaves the schedule out.                                           *)
C19_UpcomingListsOpenSchedules ==
  [][\A u \in Users :
       /\ LoadUpcomingPackaging(u) =>
            /\ upcomingPackaging'[u].rows \subseteq OpenSchedules(organizationId(u))
            /\ Cardinality(OpenSchedules(organizationId(u))) <= UpcomingLimit
                 => upcomingPackaging'[u].rows = OpenSchedules(organizationId(u))
       /\ \A r \in pending[u] :
            (Settle(u, r, TRUE) /\ r.op = "updateSchedule" /\ last'.toast # "Error") =>
              /\ \E p \in packaging_schedules' :
                   p.id = r.record /\ p.completed_at = r.completed_at
              /\ packagingSchedules[u].batch = r.batch =>
                   \E p \in packagingSchedules'[u].rows :
                     p.id = r.record /\ p.completed_at = r.completed_at
              /\ upcomingPackaging'[u].stale]_vars

(* The schedule was listed as upcoming, has been marked complete, shows    *)
(* in the batch's list with its timestamp, and the refetched upcoming      *)
(* query no longer returns it.                                             *)
C19_Witness ==
  /\ \E p \in packaging_schedules :
       /\ p.completed_at # {}
       /\ p \in packagingSchedules[SoloUser].rows
       /\ p \in SchedulesOfOrganization(organizationId(SoloUser))
  /\ upcomingPackaging[SoloUser].loaded
  /\ ~upcomingPackaging[SoloUser].stale
  /\ upcomingPackaging[SoloUser].rows = {}

(* C20: a stage update, field update or delete of a batch that reaches    *)
(* the store changes rows of the organization whose id it carries only:    *)
(* sent with an organization id other than the one the batch belongs to,   *)
(* it changes no row of batches.                                           *)
C20_BatchWritesKeyedByOrganization ==
  [][last'.op \in BatchWriteOps =>
       /\ \A b \in batches \ batches' : b.organization_id = last'.org
       /\ last'.rows = 0 => batches' = batches]_vars

(* A batch write has just affected no row although every batch id exists,  *)
(* is writable by the sender and belongs to an organization other than the *)
(* one sent, which exists as well.                                         *)
C20_Witness ==
  /\ last.op \in BatchWriteOps
  /\ last.rows = 0
  /\ OrgExists(last.org)
  /\ batchSeq = NumBatches
  /\ Cardinality(batches) = NumBatches
  /\ \A b \in batches :
       /\ b.organization_id # last.org
       /\ BatchUpdatePolicy(last.user, b)
       /\ BatchDeletePolicy(last.user, b)

(* C21: when two clients have read a batch at the same stage and both      *)
(* advance it, neither stage update is rejected and each leaves the        *)
(* stored batch at the successor of the stage they read: a stage update    *)
(* of a client that reaches the store while the batch is still at the      *)
(* stage read (the other client's update is in flight) or already at its   *)
(* successor (the other client's update has been applied) changes one row, *)
(* reports success and leaves the batch at that successor.                 *)
SameAdvance(r, q) ==
  q.op = "updateStage" /\ q.batch = r.batch /\ q.org = r.org /\ q.stage = r.stage

RaceOn(u, r) ==
  /\ r.op = "updateStage"
  /\ BatchExists(r.batch)
  /\ \/ /\ Successor(BatchRow(r.batch).current_stage) = r.stage
        /\ \E w \in Users \ {u} : \E q \in pending[w] : SameAdvance(r, q)
     \/ /\ BatchRow(r.batch).current_stage = r.stage
        /\ last.op = "updateStage" /\ last.user # u /\ last.rows = 1

C21_ConcurrentAdvancesEndAtSuccessor ==
  [][\A u \in Users : \A r \in pending[u] :
       (RaceOn(u, r) /\ Settle(u, r, TRUE)) =>
         /\ last'.toast = "Stage updated!"
         /\ last'.rows = 1
         /\ \E b \in batches' : b.id = r.batch /\ b.current_stage = r.stage]_vars

(* Two clients advanced the same batch from the same stage: the update of  *)
(* one has just been applied, the batch is one stage ahead, and the same   *)
(* update of the other is still in flight.                                 *)
C21_Witness ==
  \E u \in Users : \E r \in pending[u] :
    /\ RaceOn(u, r)
    /\ BatchRow(r.batch).current_stage = r.stage
    /\ last.toast = "Stage updated!"
    /\ selectedBatch[last.user] # NoBatch
    /\ selectedBatch[last.user].id = r.batch
    /\ selectedBatch[last.user].current_stage = r.stage

(* The rows of old are all in new with the same current_stage.             *)
StageKept(old, new) ==
  \A b \in old : \E c \in new : c.id = b.id /\ c.current_stage = b.current_stage

(* The rows of old are all in new with the same volume, organization_id    *)
(* and created_by.                                                         *)
FieldsKept(old, new) ==
  \A b \in old : \E c \in new :
    /\ c.id = b.id /\ c.volume = b.volume
    /\ c.organization_id = b.organization_id /\ c.created_by = b.created_by

Selected(u) == IF selectedBatch[u] = NoBatch THEN {} ELSE {selectedBatch[u]}

(* The copies of batch id that client u holds, in the list and selected.   *)
CachedCopies(u, id) ==
  {b \in batchesData[u].rows \cup Selected(u) : b.id = id}

(* A successful stage update leaves the other columns as they were, in     *)
(* the store and in the client's copies.                                   *)
StageUpdateFrame(u, r) ==
  /\ FieldsKept(batches, batches')
  /\ FieldsKept(batchesData[u].rows, batchesData'[u].rows)
  /\ FieldsKept(Selected(u), Selected(u)')

C23_CreatedBatchStartsAtPressing ==
  [][\A b \in batches' :
       ~BatchExists(b.id) =>
         /\ last'.op = "insertBatch"
         /\ b.current_stage = "pressing"
         /\ b.created_by = last'.user
         /\ b.organization_id = organizationId(last'.user)
         /\ IsMemberOf(last'.user, b.organization_id)]_vars

(* The create-batch form has just stored a batch.                          *)
C23_Witness ==
  /\ last.op = "insertBatch" /\ last.rows = 1 /\ last.toast = "Batch created!"
  /\ \E b \in batches :
       /\ b.id = batchSeq /\ b.current_stage = "pressing"
       /\ b.created_by = last.user /\ b \in batchesData[last.user].rows

(* C24: a batch create, field update, stage update or delete that fails    *)
(* (the request is lost, or the store answers with an error) ends there:   *)
(* the mutation leaves the client's in-flight set and nothing is put in    *)
(* its place, the store is unchanged, the cached batch list and the        *)
(* selected batch are unchanged, an error toast is shown and               *)
(* operationLoading is null again.                                         *)
C24_FailedBatchMutationIsTerminal ==
  [][\A u \in Users : \A r \in pending[u] : \A ok \in BOOLEAN :
       (/\ r.op \in BatchMutationOps
        /\ Settle(u, r, ok)
        /\ (~ok \/ StoreError(u, r))) =>
         /\ last'.toast = "Error"
         /\ pending'[u] = pending[u] \ {r}
         /\ UNCHANGED storeVars
         /\ batchesData'[u] = batchesData[u]
         /\ selectedBatch'[u] = selectedBatch[u]
         /\ operationLoading'[u] = OpNone]_vars

(* A mutation of the selected batch has just failed: the batch is still    *)
(* stored, listed and selected as before and no operation is loading.      *)
C24_Witness ==
  /\ last.toast = "Error" /\ last.user = SoloUser
  /\ selectedBatch[SoloUser] # NoBatch
  /\ selectedBatch[SoloUser] \in batches
  /\ selectedBatch[SoloUser] \in batchesData[SoloUser].rows
  /\ selectedBatch[SoloUser].current_stage = "fermenting"
  /\ operationLoading[SoloUser] = OpNone
  /\ pending[SoloUser] = {}

(* The id and current_stage of each row.                                   *)
Stages(rows) == {<<b.id, b.current_stage>> : b \in rows}

(* The client's list and selected batch agree with the store.              *)
CacheMatchesStore(u) ==
  /\ batchesData[u].loaded
  /\ Stages(batchesData[u].rows) =
       Stages({b \in batches : b.organization_id = organizationId(u)})
  /\ selectedBatch[u] # NoBatch => Stages({selectedBatch[u]}) \subseteq Stages(batches)

(* C25: with one client and nobody else writing, after every successful    *)
(* batch create, field update, stage update or delete (its answer has      *)
(* arrived and no other mutation is in flight) the cached batch list holds *)
(* exactly the stored batches of the organization, each with its stored    *)
(* current_stage, and the selected batch, if there still is one, is        *)
(* stored with the stage it shows.                                         *)
C25_CacheMatchesStoreAfterSuccess ==
  [][\A a \in pending[SoloUser] :
       (/\ Deliver(SoloUser, a)
        /\ a.answer = "ok"
        /\ pending'[SoloUser] = {}) => CacheMatchesStore(SoloUser)']_vars

(* The mutations of one batch: stage update, field update, delete.         *)
OnBatch(r) == r.op \in {"updateStage", "updateBatch", "deleteBatch"}

(* C28: in one Dashboard client, while a stage update, field update or     *)
(* delete of a batch is in flight, operationLoading is that batch's id     *)
(* and no second mutation of the batch is in flight.                       *)
C28_OneMutationPerBatchInFlight ==
  \A u \in Users : \A r \in pending[u] :
    OnBatch(r) =>
      /\ operationLoading[u] = r.batch
      /\ \A q \in pending[u] : (OnBatch(q) /\ q.batch = r.batch) => q = r

(* C26: a user holds a membership of an organization only by having        *)
(* created it: every membership row is of the user who owns (created) the  *)
(* organization, so nobody else is a member and reads or writes its        *)
(* batches as one.                                                         *)
C26_MembershipOnlyByCreating ==
  \A m \in organization_members :
    \A o \in organizations : o.id = m.organization_id => o.owner_id = m.user_id

(* The organizations user u owns.                                          *)
OwnedBy(u) == {o \in organizations : o.owner_id = u}

(* C27: whenever a user has no onboarding attempt between its two inserts, *)
(* however many attempts came before, the user owns at most one            *)
(* organization row and every organization the user owns has the user's    *)
(* owner membership.                                                       *)
C27_OnboardingLeavesOneOwnedOrganization ==
  \A u \in Users :
    onboarding[u] = NoId =>
      /\ Cardinality(OwnedBy(u)) <= 1
      /\ \A o \in OwnedBy(u) : HasRole(u, o.id, "owner")

(* C29: whenever the App renders the Dashboard or Settings route, a user   *)
(* is signed in and a membership row exists for that user, however the     *)
(* auth events, the initial session check and the replies of               *)
(* checkOrganization interleave.                                           *)
C29_ProtectedRoutesNeedMembership ==
  ProtectedRouteRendered =>
    /\ app.session # NoId
    /\ app.user = app.session
    /\ \E m \in organization_members : m.user_id = app.user

(* C30: the fermentation log form sends an insert exactly when at least    *)
(* one of temperature, specific_gravity and ph holds a number (zero        *)
(* included) or the notes hold text; with none of them the submit is       *)
(* refused with "Add some data" and nothing is sent.                       *)
C30_LogSentIffSomethingProvided ==
  [][\A u \in Users : \A temperature, specific_gravity, ph \in FormMetrics :
       \A notes \in FormNotes :
         handleAddFermentationLog(u, temperature, specific_gravity, ph, notes) =>
           LET provided == \/ temperature # {} \/ specific_gravity # {} \/ ph # {}
                           \/ trim(notes) # ""
               sent == \E r \in pending'[u] \ pending[u] : r.op = "insertLog" IN
           /\ provided <=> sent
           /\ ~provided => last'.toast = "Add some data"]_vars

====
